---- MODULE Spec2Model ----
(***************************************************************************)
(* A model of the application core of the comet terminal browser:         *)
(* src/src/app.rs (Page, History, App, load_page) driven by the main loop  *)
(* of src/src/lib.rs (start_ui, render_app).                               *)
(*                                                                         *)
(* One owner thread runs start_ui's loop (draw, receive an event, handle   *)
(* it); every dispatch spawns one worker thread that fetches, parses and   *)
(* sends one NetworkEvent::PageLoaded into the mpsc channel whose receiver *)
(* is App.in_rx.                                                           *)
(***************************************************************************)
EXTENDS Integers, Sequences, FiniteSets, TLC

VARIABLES
    app,      \* the App struct: page, scroll, height, search, address, history
    in_rx,    \* the messages pending in the completion channel, oldest first
    workers,  \* the threads spawned by load_page, in dispatch order
    pc,       \* where the owner thread stands in start_ui
    event,    \* the event most recently received by start_ui's loop
    trace,    \* SpecHistory only: the calls made on a History and their results
    rx,       \* SpecEvents only: the events pending in the channel of Events
    source    \* SpecEvents only: where the thread of Events::new stands

vars == <<app, in_rx, workers, pc, event, trace, rx, source>>

-----------------------------------------------------------------------------
(* Bounds of the model.                                                    *)

\* The number of fetches dispatched in one run (one worker thread each).
MaxWorkers == 3

\* scroll_down() is not taken any more once scroll has reached this value.
MaxScroll == 2

\* The viewport heights the renderer may report are 0..MaxHeight.
MaxHeight == 1

\* The number of History calls recorded in one run of SpecHistory.
MaxTrace == 7

-----------------------------------------------------------------------------
(* Option<T>: None is the empty sequence, Some(x) the sequence <<x>>.      *)

None == <<>>

Some(x) == <<x>>

IsSome(o) == o # <<>>

Unwrap(o) == o[1]

\* u16: App.scroll and App.height.
U16 == 65536

\* saturating_sub on unsigned integers.
SaturatingSub(a, b) == IF a >= b THEN a - b ELSE 0

Last(s) == s[Len(s)]

Front(s) == SubSeq(s, 1, Len(s) - 1)

-----------------------------------------------------------------------------
(* Addresses and link targets.                                             *)

\* The address App::new and start_ui start from.
Default == "gemini://gemini.circumlunar.space/"

AddrX == "gemini://gemini.circumlunar.space/x"

AddrY == "gemini://gemini.circumlunar.space/y"

\* An absolute link target; the parser lower-cases the scheme.
TargetAbs == "GEMINI://gemini.circumlunar.space/x"

\* A relative reference.
TargetRel == "y"

\* A scheme-relative reference with a malformed host: it has no scheme, so
\* parsing it alone reports RelativeUrlWithoutBase, and joining it against a
\* base reports InvalidIpv6Address.
TargetBadJoin == "//["

\* An absolute reference with a malformed host: InvalidIpv6Address.
TargetBadAbs == "gemini://["

\* Url::parse(text): Ok(url) carries url.as_str(); Err carries the ParseError.
UrlParse(text) ==
    CASE text \in {Default, AddrX, AddrY} -> [ok |-> TRUE, url |-> text, err |-> ""]
      [] text = TargetAbs    -> [ok |-> TRUE, url |-> AddrX, err |-> ""]
      [] text = TargetBadAbs -> [ok |-> FALSE, url |-> "", err |-> "InvalidIpv6Address"]
      [] OTHER               -> [ok |-> FALSE, url |-> "", err |-> "RelativeUrlWithoutBase"]

\* Url::join(base, text) for a base that parsed: an absolute text replaces the
\* base, a relative path replaces the last path segment of the base. Every
\* address of the model (Default, AddrX, AddrY) lies in the root directory of
\* the same host, so "y" joins to AddrY against each of them.
UrlJoin(base, text) ==
    CASE UrlParse(text).ok -> UrlParse(text)
      [] text = TargetRel  -> [ok |-> TRUE, url |-> AddrY, err |-> ""]
      [] OTHER             -> [ok |-> FALSE, url |-> "", err |-> "InvalidIpv6Address"]

-----------------------------------------------------------------------------
(* Lines (minigem::Line) and response bodies.                              *)

TextLine == [kind |-> "Text", link |-> None]

LinkLine(t) == [kind |-> "Link", link |-> Some(t)]

\* An item of the Lines iterator that is an Err: a line that does not parse.
Malformed == [kind |-> "Malformed", link |-> None]

\* The bodies a server may answer with.
Bodies ==
    { <<LinkLine(TargetAbs), LinkLine(TargetBadAbs), LinkLine(TargetRel)>>,
      <<TextLine, LinkLine(TargetBadJoin)>>,
      <<TextLine, Malformed>> }

-----------------------------------------------------------------------------
(* History.                                                                *)

History_new == [prev |-> <<>>, next |-> <<>>]

\* push without next.clear().
push_KeepsNext(h, link) == [prev |-> Append(h.prev, link), next |-> h.next]

\* History::push
push(h, link) == [prev |-> Append(h.prev, link), next |-> <<>>]

\* prev dropping the popped address instead of pushing it onto next.
prev_DropsTop(h) ==
    IF Len(h.prev) > 1
    THEN [h |-> [prev |-> Front(h.prev), next |-> h.next],
          ret |-> Some(Last(Front(h.prev)))]
    ELSE [h |-> h, ret |-> None]

\* History::prev: the history afterwards and the address returned.
prev(h) ==
    IF Len(h.prev) > 1
    THEN [h |-> [prev |-> Front(h.prev), next |-> Append(h.next, Last(h.prev))],
          ret |-> Some(Last(Front(h.prev)))]
    ELSE [h |-> h, ret |-> None]

has_prev(h) == Len(h.prev) > 1

\* next taking the oldest address of the next stack, not its top.
next_TakesOldest(h) ==
    IF h.next # <<>>
    THEN [h |-> [prev |-> Append(h.prev, Head(h.next)), next |-> Tail(h.next)],
          ret |-> Some(Head(h.next))]
    ELSE [h |-> h, ret |-> None]

\* History::next: the history afterwards and the address returned.
next(h) ==
    IF h.next # <<>>
    THEN [h |-> [prev |-> Append(h.prev, Last(h.next)), next |-> Front(h.next)],
          ret |-> Some(Last(h.next))]
    ELSE [h |-> h, ret |-> None]

has_next(h) == h.next # <<>>

-----------------------------------------------------------------------------
(* App.                                                                    *)

\* App::new
App_new ==
    [page    |-> [lines |-> <<>>, link_indices |-> <<>>, link_numbers |-> <<>>,
                  highlighted_link |-> None],
     search  |-> Default,
     address |-> Default,
     height  |-> 0,
     scroll  |-> 0,
     history |-> History_new]

\* What a method of App leaves behind: the App, the PageRequests it dispatched
\* and whether it panicked (the owner thread unwinds).
Returned(a) == [app |-> a, spawn |-> <<>>, panic |-> FALSE]

Dispatched(a, link, push_history) ==
    [app |-> a, spawn |-> <<[url |-> link, push_history |-> push_history]>>,
     panic |-> FALSE]

Panicked(a) == [app |-> a, spawn |-> <<>>, panic |-> TRUE]

\* u16 `+=`: a build with overflow checks panics on overflow, a build without
\* them wraps; below 2^16 both store the sum.
AddU16(a, x, y) ==
    IF x + y < U16
    THEN {Returned([a EXCEPT !.scroll = x + y])}
    ELSE {Panicked(a), Returned([a EXCEPT !.scroll = (x + y) % U16])}

\* App::scroll_down
scroll_down(a) == AddU16(a, a.scroll, 1)

\* App::scroll_up
scroll_up(a) == {Returned([a EXCEPT !.scroll = SaturatingSub(a.scroll, 1)])}

\* page_forward with lines.len() as the bound, not lines.len() - 1.
page_forward_BoundIsLen(a) ==
    LET max_scroll == Len(a.page.lines) % U16
    IN  { IF o.panic \/ o.app.scroll <= max_scroll
          THEN o
          ELSE Returned([o.app EXCEPT !.scroll = max_scroll])
          : o \in AddU16(a, a.scroll, a.height) }

\* App::page_forward
page_forward(a) ==
    LET max_scroll == SaturatingSub(Len(a.page.lines), 1) % U16
    IN  { IF o.panic \/ o.app.scroll <= max_scroll
          THEN o
          ELSE Returned([o.app EXCEPT !.scroll = max_scroll])
          : o \in AddU16(a, a.scroll, a.height) }

\* App::page_backward
page_backward(a) ==
    {Returned([a EXCEPT !.scroll = SaturatingSub(a.scroll, a.height)])}

\* App::page_next
page_next(a) ==
    LET result == next(a.history)
        a2     == [a EXCEPT !.history = result.h]
    IN  IF IsSome(result.ret)
        THEN {Dispatched(a2, Unwrap(result.ret), FALSE)}
        ELSE {Returned(a2)}

\* page_prev asking for the fetched page to be pushed onto the history.
page_prev_ExtendsHistory(a) ==
    LET result == prev(a.history)
        a2     == [a EXCEPT !.history = result.h]
    IN  IF IsSome(result.ret)
        THEN {Dispatched(a2, Unwrap(result.ret), TRUE)}
        ELSE {Returned(a2)}

\* App::page_prev
page_prev(a) ==
    LET result == prev(a.history)
        a2     == [a EXCEPT !.history = result.h]
    IN  IF IsSome(result.ret)
        THEN {Dispatched(a2, Unwrap(result.ret), FALSE)}
        ELSE {Returned(a2)}

\* usize `-` in link_indices.len() - 1: on an empty link_indices it panics with
\* overflow checks and wraps to usize::MAX without them; UsizeMax stands for
\* that value, which no index equals.
UsizeMax == 0 - 1

\* App::next_link
next_link(a) ==
    LET hl  == a.page.highlighted_link
        len == Len(a.page.link_indices)
    IN  IF IsSome(hl)
        THEN IF len = 0
             THEN {Panicked(a),
                   Returned([a EXCEPT !.page.highlighted_link =
                       Some(IF Unwrap(hl) = UsizeMax THEN 0 ELSE Unwrap(hl) + 1)])}
             ELSE {Returned([a EXCEPT !.page.highlighted_link =
                       Some(IF Unwrap(hl) = len - 1 THEN 0 ELSE Unwrap(hl) + 1)])}
        ELSE {Returned([a EXCEPT !.page.highlighted_link =
                  IF len # 0 THEN Some(0) ELSE None])}

\* App::previous_link
previous_link(a) ==
    LET hl  == a.page.highlighted_link
        len == Len(a.page.link_indices)
    IN  IF IsSome(hl)
        THEN IF Unwrap(hl) = 0
             THEN IF len = 0
                  THEN {Panicked(a),
                        Returned([a EXCEPT !.page.highlighted_link = Some(UsizeMax)])}
                  ELSE {Returned([a EXCEPT !.page.highlighted_link = Some(len - 1)])}
             ELSE {Returned([a EXCEPT !.page.highlighted_link = Some(Unwrap(hl) - 1)])}
        ELSE {Returned([a EXCEPT !.page.highlighted_link =
                  IF len # 0 THEN Some(len - 1) ELSE None])}

\* App::clear_highlighted
clear_highlighted(a) == {Returned([a EXCEPT !.page.highlighted_link = None])}

\* App::request_page_from_selected
request_page_from_selected(a) ==
    LET hl == a.page.highlighted_link
    IN  IF ~IsSome(hl)
        THEN {Returned(a)}
        ELSE IF Unwrap(hl) \notin 0..(Len(a.page.link_indices) - 1)
        THEN {Panicked(a)}                       \* index out of bounds
        ELSE
        LET line   == a.page.lines[a.page.link_indices[Unwrap(hl) + 1] + 1]
            text   == Unwrap(line.link)
            result == UrlParse(text)
            joined == UrlJoin(UrlParse(a.address).url, text)
        IN  CASE result.ok -> {Dispatched(a, result.url, TRUE)}
              [] result.err = "RelativeUrlWithoutBase" ->
                     IF UrlParse(a.address).ok /\ joined.ok
                     THEN {Dispatched(a, joined.url, TRUE)}
                     ELSE {Panicked(a)}          \* unwrap() of an Err
              [] OTHER -> {Returned(a)}

\* The scan of handle_event over lines[i..]: every Link line's position is
\* inserted into link_numbers and pushed onto link_indices.
RECURSIVE ScanLinks(_, _, _)
ScanLinks(lines, i, p) ==
    IF i >= Len(lines)
    THEN p
    ELSE IF lines[i + 1].kind = "Link"
         THEN ScanLinks(lines, i + 1,
                  [p EXCEPT
                      !.link_numbers =
                          [k \in DOMAIN p.link_numbers \cup {i} |->
                              IF k = i THEN Len(p.link_indices) ELSE p.link_numbers[k]],
                      !.link_indices = Append(p.link_indices, i)])
         ELSE ScanLinks(lines, i + 1, p)

\* handle_event without `highlighted_link = None`.
handle_event_KeepsHighlight(a, ev) ==
    LET p1 == [a.page EXCEPT !.lines = ev.lines, !.link_indices = <<>>]
        p2 == ScanLinks(ev.lines, 0, p1)
        a1 == [a EXCEPT !.page = p2, !.scroll = 0, !.address = ev.address]
    IN  IF ev.push_history
        THEN [a1 EXCEPT !.history = push(a1.history, a1.address)]
        ELSE a1

\* handle_event without `link_indices = vec![]`.
handle_event_KeepsLinkIndices(a, ev) ==
    LET p1 == [a.page EXCEPT !.lines = ev.lines]
        p2 == ScanLinks(ev.lines, 0, p1)
        p3 == [p2 EXCEPT !.highlighted_link = None]
        a1 == [a EXCEPT !.page = p3, !.scroll = 0, !.address = ev.address]
    IN  IF ev.push_history
        THEN [a1 EXCEPT !.history = push(a1.history, a1.address)]
        ELSE a1

\* handle_event pushing whatever the flag says.
handle_event_AlwaysPushes(a, ev) ==
    LET p1 == [a.page EXCEPT !.lines = ev.lines, !.link_indices = <<>>]
        p2 == ScanLinks(ev.lines, 0, p1)
        p3 == [p2 EXCEPT !.highlighted_link = None]
        a1 == [a EXCEPT !.page = p3, !.scroll = 0, !.address = ev.address]
    IN  [a1 EXCEPT !.history = push(a1.history, a1.address)]

\* handle_event calling history.push(self.address.clone()) before it assigns
\* the page, the scroll and the address.
handle_event_PushesFirst(a, ev) ==
    LET h  == IF ev.push_history THEN push(a.history, a.address) ELSE a.history
        p1 == [a.page EXCEPT !.lines = ev.lines, !.link_indices = <<>>]
        p2 == ScanLinks(ev.lines, 0, p1)
        p3 == [p2 EXCEPT !.highlighted_link = None]
    IN  [a EXCEPT !.page = p3, !.scroll = 0, !.address = ev.address, !.history = h]

\* App::handle_event, for NetworkEvent::PageLoaded
handle_event(a, ev) ==
    LET p1 == [a.page EXCEPT !.lines = ev.lines, !.link_indices = <<>>]
        p2 == ScanLinks(ev.lines, 0, p1)
        p3 == [p2 EXCEPT !.highlighted_link = None]
        a1 == [a EXCEPT !.page = p3, !.scroll = 0, !.address = ev.address]
    IN  IF ev.push_history
        THEN [a1 EXCEPT !.history = push(a1.history, a1.address)]
        ELSE a1

\* render_app and render_page: the viewport height is stored; span_from_line
\* unwraps link_numbers.get(&index) for every Link line and indexes
\* link_indices by the highlighted link.
render_app(a, h) == [a EXCEPT !.height = h]

RenderPanics(a) ==
    \E i \in 0..(Len(a.page.lines) - 1) :
        /\ a.page.lines[i + 1].kind = "Link"
        /\ \/ i \notin DOMAIN a.page.link_numbers
           \/ /\ IsSome(a.page.highlighted_link)
              /\ Unwrap(a.page.highlighted_link) \notin 0..(Len(a.page.link_indices) - 1)

-----------------------------------------------------------------------------
(* The fetch workers: the thread load_page spawns.                         *)

\* load_page: the thread as spawned, about to send the request.
Spawned(r) == [st |-> "fetch", url |-> r.url, push_history |-> r.push_history]

\* App::dispatch of every PageRequest in rs, in order.
dispatch(ws, rs) == ws \o [i \in 1..Len(rs) |-> Spawned(rs[i])]

\* line.unwrap() over Lines::from(res.body): Some(buf) when every line is Ok,
\* None when one is an Err and unwrap() panics.
RECURSIVE UnwrapLines(_, _)
UnwrapLines(body, buf) ==
    IF body = <<>>
    THEN Some(buf)
    ELSE IF Head(body).kind = "Malformed"
         THEN None
         ELSE UnwrapLines(Tail(body), Append(buf, Head(body)))

\* The NetworkEvent::PageLoaded the thread w sends for the lines in buf.
PageLoaded(w, buf) ==
    [address |-> w.url, lines |-> buf, push_history |-> w.push_history]

\* Request::new(&url).send() returned Err: unwrap() panics and the thread ends.
WorkerFetchFails(i) ==
    /\ pc \notin {"exit", "panicked", "error"}
    /\ workers[i].st = "fetch"
    /\ workers' = [workers EXCEPT ![i].st = "panicked"]
    /\ UNCHANGED <<app, in_rx, pc, event, trace, rx, source>>

\* The response came with a body one of whose lines is an Err: line.unwrap()
\* panics and the thread ends.
WorkerParseFails(i, body) ==
    /\ pc \notin {"exit", "panicked", "error"}
    /\ workers[i].st = "fetch"
    /\ UnwrapLines(body, <<>>) = None
    /\ workers' = [workers EXCEPT ![i].st = "panicked"]
    /\ UNCHANGED <<app, in_rx, pc, event, trace, rx, source>>

\* A thread that, besides sending PageLoaded, stores the address it fetched
\* in the App itself.
WorkerSends_SetsAddress(i, body) ==
    /\ pc \notin {"exit", "panicked", "error"}
    /\ workers[i].st = "fetch"
    /\ UnwrapLines(body, <<>>) # None
    /\ in_rx' = Append(in_rx, PageLoaded(workers[i], Unwrap(UnwrapLines(body, <<>>))))
    /\ workers' = [workers EXCEPT ![i].st = "done"]
    /\ app' = [app EXCEPT !.address = workers[i].url]
    /\ UNCHANGED <<pc, event, trace, rx, source>>

\* The response came with a body whose lines are all Ok: the thread collects
\* them in buf, sends PageLoaded and ends.
WorkerSends(i, body) ==
    /\ pc \notin {"exit", "panicked", "error"}
    /\ workers[i].st = "fetch"
    /\ UnwrapLines(body, <<>>) # None
    /\ in_rx' = Append(in_rx, PageLoaded(workers[i], Unwrap(UnwrapLines(body, <<>>))))
    /\ workers' = [workers EXCEPT ![i].st = "done"]
    /\ UNCHANGED <<app, pc, event, trace, rx, source>>

-----------------------------------------------------------------------------
(* The owner thread: start_ui.                                             *)

\* The key events start_ui reacts to.
Keys == {"Enter", "Down", "Up", "CtrlF", "F", "CtrlB", "B", "J", "K", "Esc"}

\* The body of the match arm for Event::Input, after the test for 'q'.
HandleKey(a, key) ==
    CASE key = "Enter" -> request_page_from_selected(a)
      [] key = "Down"  -> scroll_down(a)
      [] key = "Up"    -> scroll_up(a)
      [] key = "CtrlF" -> page_forward(a)
      [] key = "F"     -> IF has_next(a.history) THEN page_next(a) ELSE {Returned(a)}
      [] key = "CtrlB" -> page_backward(a)
      [] key = "B"     -> IF has_prev(a.history) THEN page_prev(a) ELSE {Returned(a)}
      [] key = "J"     -> next_link(a)
      [] key = "K"     -> previous_link(a)
      [] key = "Esc"   -> clear_highlighted(a)

\* try_recv returning the newest message.
try_recv_Newest(q) == [event |-> Last(q), rest |-> Front(q)]

\* App::drain_events, one turn of its loop with a message pending: try_recv
\* returns the oldest message.
try_recv(q) == [event |-> Head(q), rest |-> Tail(q)]

\* start_ui up to its loop: the first PageRequest is dispatched.
Start ==
    /\ pc = "start"
    /\ workers' = dispatch(workers, <<[url |-> Default, push_history |-> TRUE]>>)
    /\ pc' = "draw"
    /\ UNCHANGED <<app, in_rx, event, trace, rx, source>>

\* terminal.draw(|f| render_app(f, &mut app))
Draw(h) ==
    /\ pc = "draw"
    /\ IF RenderPanics(render_app(app, h))
       THEN pc' = "panicked"
       ELSE pc' = "recv"
    /\ app' = render_app(app, h)
    /\ UNCHANGED <<in_rx, workers, event, trace, rx, source>>

\* start_ui's match arm for Event::Input(key), key other than 'q'.
OnInput(key) ==
    /\ pc = "recv"
    /\ key = "Down" => app.scroll < MaxScroll
    /\ \E o \in HandleKey(app, key) :
           /\ Len(workers) + Len(o.spawn) <= MaxWorkers
           /\ app' = o.app
           /\ workers' = dispatch(workers, o.spawn)
           /\ pc' = IF o.panic THEN "panicked" ELSE "draw"
    /\ event' = key
    /\ UNCHANGED <<in_rx, trace>>

\* events.recv() returned Event::Input(key), key other than 'q'.
Input(key) ==
    /\ OnInput(key)
    /\ UNCHANGED <<rx, source>>

\* events.recv() returned Event::Input('q'): the loop breaks.
Quit ==
    /\ pc = "recv"
    /\ pc' = "exit"
    /\ event' = "Q"
    /\ UNCHANGED <<app, in_rx, workers, trace, rx, source>>

\* start_ui's match arm for Event::Tick: app.tick() enters drain_events.
OnTick ==
    /\ pc = "recv"
    /\ pc' = "drain"
    /\ event' = "Tick"
    /\ UNCHANGED <<app, in_rx, workers, trace>>

\* events.recv() returned Event::Tick.
Tick ==
    /\ OnTick
    /\ UNCHANGED <<rx, source>>

\* drain_events: try_recv() returned Ok(event).
DrainOne ==
    /\ pc = "drain"
    /\ in_rx # <<>>
    /\ app' = handle_event(app, try_recv(in_rx).event)
    /\ in_rx' = try_recv(in_rx).rest
    /\ UNCHANGED <<workers, pc, event, trace, rx, source>>

\* The senders of the completion channel without App._in_tx.
Senders_WorkersOnly(ws) == Cardinality({i \in DOMAIN ws : ws[i].st = "fetch"})

\* The live senders of the completion channel: App._in_tx, which the App keeps
\* for its whole life, and the clone each running worker holds (dropped when
\* its thread ends or unwinds).
Senders(ws) == 1 + Cardinality({i \in DOMAIN ws : ws[i].st = "fetch"})

\* drain_events with a blocking receive: it returns only once no worker is
\* left that could still send.
DrainEmpty_WaitsForWorkers ==
    /\ pc = "drain"
    /\ in_rx = <<>>
    /\ \A i \in DOMAIN workers : workers[i].st # "fetch"
    /\ pc' = "draw"
    /\ UNCHANGED <<app, in_rx, workers, event, trace, rx, source>>

\* drain_events: nothing is pending. try_recv() returns
\* Err(TryRecvError::Empty) while a sender lives, and tick() returns Ok; with
\* no sender left it returns Err(Disconnected), which tick() and start_ui
\* pass on with `?`.
DrainEmpty ==
    /\ pc = "drain"
    /\ in_rx = <<>>
    /\ pc' = IF Senders(workers) = 0 THEN "error" ELSE "draw"
    /\ UNCHANGED <<app, in_rx, workers, event, trace, rx, source>>

Init ==
    /\ app = App_new
    /\ in_rx = <<>>
    /\ workers = <<>>
    /\ pc = "start"
    /\ event = "none"
    /\ trace = <<>>
    /\ rx = <<>>
    /\ source = "poll"

Next ==
    \/ Start
    \/ \E h \in 0..MaxHeight : Draw(h)
    \/ \E key \in Keys : Input(key)
    \/ Quit
    \/ Tick
    \/ DrainOne
    \/ DrainEmpty
    \/ \E i \in 1..Len(workers) : WorkerFetchFails(i)
    \/ \E i \in 1..Len(workers), body \in Bodies : WorkerParseFails(i, body)
    \/ \E i \in 1..Len(workers), body \in Bodies : WorkerSends(i, body)

Spec == Init /\ [][Next]_vars

-----------------------------------------------------------------------------
(* The browser once two pages are on its history: the start page was       *)
(* loaded, its first link was followed and that page was loaded too. The    *)
(* two threads that fetched them have ended and are left out of `workers`.  *)

\* The address request_page_from_selected resolves the first link of the
\* start page to.
NavLink == UrlJoin(Default, TargetAbs).url

\* The App after handle_event has applied the two PageLoaded messages.
NavLoaded ==
    LET body  == <<LinkLine(TargetAbs), LinkLine(TargetBadAbs), LinkLine(TargetRel)>>
        first == [address |-> Default, lines |-> body, push_history |-> TRUE]
        second == [address |-> NavLink, lines |-> <<TextLine, LinkLine(TargetBadJoin)>>,
                   push_history |-> TRUE]
    IN  handle_event(handle_event(App_new, first), second)

\* The keys pressed from there on: 'b' and 'f'.
NavKeys == {"B", "F"}

InitNav ==
    /\ app = NavLoaded
    /\ in_rx = <<>>
    /\ workers = <<>>
    /\ pc = "draw"
    /\ event = "Tick"
    /\ trace = <<>>
    /\ rx = <<>>
    /\ source = "poll"

NextNav ==
    \/ \E h \in 0..MaxHeight : Draw(h)
    \/ \E key \in NavKeys : Input(key)
    \/ Quit
    \/ Tick
    \/ DrainOne
    \/ DrainEmpty
    \/ \E i \in 1..Len(workers) : WorkerFetchFails(i)
    \/ \E i \in 1..Len(workers), body \in Bodies : WorkerParseFails(i, body)
    \/ \E i \in 1..Len(workers), body \in Bodies : WorkerSends(i, body)

SpecNav == InitNav /\ [][NextNav]_vars

-----------------------------------------------------------------------------
(* The browser with its event source: the thread of Events::new            *)
(* (src/src/event.rs) sends into the channel `rx`, from which start_ui's   *)
(* loop receives. 'q' is never pressed.                                     *)

\* How many events the channel of Events holds in the model.
MaxEvents == 2

\* The keys pressed.
EventKeys == {"J", "Enter"}

\* The bodies the server answers with: a page with a link that resolves and
\* one whose join fails, and a body with a line that is an Err.
EventBodies ==
    { <<LinkLine(TargetAbs), LinkLine(TargetBadJoin)>>,
      <<TextLine, Malformed>> }

\* The threads spawned so far and those the events on their way can make
\* start_ui spawn: the first request, while still to be dispatched, and one
\* for every Enter pending. Enter is pressed only while this is below
\* MaxWorkers, so that start_ui can handle every event it receives.
Requests ==
    Len(workers) + (IF pc = "start" THEN 1 ELSE 0)
        + Cardinality({i \in DOMAIN rx : rx[i] = "Enter"})

\* poll(timeout) returned true and read() a key event: Event::Input is sent;
\* the Tick of this turn of the loop is still to be sent.
SourceInput(key) ==
    /\ pc \notin {"exit", "panicked", "error"}
    /\ source = "poll"
    /\ Len(rx) < MaxEvents
    /\ key = "Enter" => Requests < MaxWorkers
    /\ rx' = Append(rx, key)
    /\ source' = "tick"
    /\ UNCHANGED <<app, in_rx, workers, pc, event, trace>>

\* tx2.send(Event::Tick), at the end of every turn of the loop: after the
\* Input of this turn if there was one, otherwise after poll timed out or
\* read() returned an event that is not a key.
SourceTick ==
    /\ pc \notin {"exit", "panicked", "error"}
    /\ Len(rx) < MaxEvents
    /\ rx' = Append(rx, "Tick")
    /\ source' = "poll"
    /\ UNCHANGED <<app, in_rx, workers, pc, event, trace>>

\* events.recv() returns the oldest event, an Input.
RecvInput(key) ==
    /\ rx # <<>>
    /\ Head(rx) = key
    /\ rx' = Tail(rx)
    /\ OnInput(key)
    /\ UNCHANGED source

\* events.recv() returns the oldest event, a Tick.
RecvTick ==
    /\ rx # <<>>
    /\ Head(rx) = "Tick"
    /\ rx' = Tail(rx)
    /\ OnTick
    /\ UNCHANGED source

\* The steps of the owner thread.
OwnerStep ==
    \/ Start
    \/ \E h \in 0..MaxHeight : Draw(h)
    \/ \E key \in EventKeys : RecvInput(key)
    \/ RecvTick
    \/ DrainOne
    \/ DrainEmpty

\* The steps of the thread of Events::new.
SourceStep ==
    \/ \E key \in EventKeys : SourceInput(key)
    \/ SourceTick

NextEvents ==
    \/ Start
    \/ \E h \in 0..MaxHeight : Draw(h)
    \/ \E key \in EventKeys : RecvInput(key)
    \/ RecvTick
    \/ DrainOne
    \/ DrainEmpty
    \/ \E key \in EventKeys : SourceInput(key)
    \/ SourceTick
    \/ \E i \in 1..Len(workers) : WorkerFetchFails(i)
    \/ \E i \in 1..Len(workers), body \in EventBodies : WorkerParseFails(i, body)
    \/ \E i \in 1..Len(workers), body \in EventBodies : WorkerSends(i, body)

\* Both loops keep running: the owner thread takes its next step and the
\* event source its next turn whenever they can.
SpecEvents ==
    /\ Init
    /\ [][NextEvents]_vars
    /\ WF_vars(OwnerStep)
    /\ WF_vars(SourceStep)

-----------------------------------------------------------------------------
(* History used alone: a client calls push, prev ("go back") and next      *)
(* ("go forward") on App::new's History and notes, after every call, what  *)
(* it returned and what has_prev and has_next then answer.                 *)

Addresses == {Default, AddrX, AddrY}

Called(op, arg, ret, h) ==
    [op |-> op, arg |-> arg, ret |-> ret,
     has_prev |-> has_prev(h), has_next |-> has_next(h)]

HistoryPush(link) ==
    /\ Len(trace) < MaxTrace
    /\ app' = [app EXCEPT !.history = push(app.history, link)]
    /\ trace' = Append(trace, Called("push", Some(link), None, app'.history))
    /\ UNCHANGED <<in_rx, workers, pc, event, rx, source>>

HistoryPrev ==
    /\ Len(trace) < MaxTrace
    /\ app' = [app EXCEPT !.history = prev(app.history).h]
    /\ trace' = Append(trace, Called("prev", None, prev(app.history).ret, app'.history))
    /\ UNCHANGED <<in_rx, workers, pc, event, rx, source>>

HistoryNext ==
    /\ Len(trace) < MaxTrace
    /\ app' = [app EXCEPT !.history = next(app.history).h]
    /\ trace' = Append(trace, Called("next", None, next(app.history).ret, app'.history))
    /\ UNCHANGED <<in_rx, workers, pc, event, rx, source>>

NextHistory ==
    \/ \E link \in Addresses : HistoryPush(link)
    \/ HistoryPrev
    \/ HistoryNext

SpecHistory == Init /\ [][NextHistory]_vars

-----------------------------------------------------------------------------
(* Properties.                                                             *)

\* trace[lo..hi] are all calls of op.
IsRun(lo, hi, op) == \A i \in lo..hi : trace[i].op = op

\* C4: for History used alone, after pushes a1..an (n >= 1), k < n calls of
\* prev() return a(n-1), ..., a(n-k) in that order, has_prev() is false after
\* them exactly when one element is left in prev, the calls of next() that
\* follow return the same addresses in the reverse order, back to an, and a
\* push made after going back leaves next empty: has_next() is false and a
\* next() right after it returns nothing.
C4_HistoryBackForward ==
    /\ (trace # <<>> /\ Last(trace).op = "push") => app.history.next = <<>>
    /\ (\E i \in 1..Len(trace) : trace[i].op = "push") =>
           (~has_prev(app.history) <=> Len(app.history.prev) = 1)
    /\ \A n \in 1..Len(trace), k \in 0..Len(trace), j \in 0..Len(trace) :
           ( /\ n + k + j <= Len(trace)
             /\ k < n
             /\ j <= k
             /\ IsRun(1, n, "push")
             /\ IsRun(n + 1, n + k, "prev")
             /\ IsRun(n + k + 1, n + k + j, "next") )
           =>
           /\ \A i \in 1..k :
                  /\ trace[n + i].ret = trace[n - i].arg
                  /\ trace[n + i].has_prev = (n - i > 1)
                  /\ trace[n + i].has_next
           /\ \A i \in 1..j :
                  /\ trace[n + k + i].ret = trace[n - k + i].arg
                  /\ trace[n + k + i].has_next = (i < k)
           /\ \A m \in {n + k + j + 1} \cap DOMAIN trace :
                  trace[m].op = "push" =>
                      /\ ~trace[m].has_next
                      /\ \A m2 \in {m + 1} \cap DOMAIN trace :
                             trace[m2].op = "next" => trace[m2].ret = None

\* C4's case: pushes A, B, C, back twice, forward once to B, and a push that
\* abandons the way forward to C.
C4_Witness ==
    /\ Len(trace) = 7
    /\ IsRun(1, 3, "push") /\ IsRun(4, 5, "prev") /\ IsRun(6, 6, "next")
    /\ trace[7].op = "push"
    /\ trace[1].arg # trace[2].arg /\ trace[2].arg # trace[3].arg
    /\ trace[1].arg # trace[3].arg
    /\ trace[4].ret = trace[2].arg /\ trace[5].ret = trace[1].arg
    /\ trace[6].ret = trace[2].arg
    /\ app.history.next = <<>>

-----------------------------------------------------------------------------
(* The scroll operations used alone, on an App whose scroll counter, height *)
(* and page length are at the ends of their ranges: scroll_down() has no    *)
(* upper bound, so the Down key pressed often enough brings scroll to any   *)
(* u16 value, and a server may send a page of any length.                   *)

\* How many scroll operations are called.
MaxCalls == 3

\* Scroll counters at both ends of u16.
ScrollValues == {0, 1, U16 - 2, U16 - 1}

\* Pages of no line, of two lines and of one line more than u16 can count.
PageLengths == {0, 2, U16 + 1}

\* A page of n text lines.
TextPage(n) == [i \in 1..n |-> TextLine]

\* The App with the scroll counter s, the viewport height h and n lines.
Scrolled(s, h, n) ==
    [App_new EXCEPT !.scroll = s, !.height = h, !.page.lines = TextPage(n)]

\* App::scroll_down is called.
CallScrollDown ==
    /\ pc = "recv"
    /\ Len(trace) < MaxCalls
    /\ \E o \in scroll_down(app) :
           /\ app' = o.app
           /\ pc' = IF o.panic THEN "panicked" ELSE "recv"
    /\ trace' = Append(trace, [op |-> "scroll_down"])
    /\ UNCHANGED <<in_rx, workers, event, rx, source>>

\* App::page_forward is called.
CallPageForward ==
    /\ pc = "recv"
    /\ Len(trace) < MaxCalls
    /\ \E o \in page_forward(app) :
           /\ app' = o.app
           /\ pc' = IF o.panic THEN "panicked" ELSE "recv"
    /\ trace' = Append(trace, [op |-> "page_forward"])
    /\ UNCHANGED <<in_rx, workers, event, rx, source>>

InitScroll ==
    /\ app \in {Scrolled(s, h, n) :
                    s \in ScrollValues, h \in 0..MaxHeight, n \in PageLengths}
    /\ in_rx = <<>>
    /\ workers = <<>>
    /\ pc = "recv"
    /\ event = "none"
    /\ trace = <<>>
    /\ rx = <<>>
    /\ source = "poll"

NextScroll ==
    \/ CallScrollDown
    \/ CallPageForward

SpecScroll == InitScroll /\ [][NextScroll]_vars

-----------------------------------------------------------------------------
(* The steps of the owner thread and of the workers, as seen in a pair of  *)
(* states.                                                                 *)

\* drain_events received the oldest pending message and applied it.
Applies == in_rx # <<>> /\ in_rx' = Tail(in_rx)

\* A worker sent a message.
Sends == Len(in_rx') = Len(in_rx) + 1 /\ SubSeq(in_rx', 1, Len(in_rx)) = in_rx

\* The owner thread handled the key event: it was waiting in events.recv() and
\* has left the match arm for the key.
Handles(key) == pc = "recv" /\ pc' # "recv" /\ event' = key

\* dispatch was called: a worker was spawned.
Dispatches == Len(workers') > Len(workers)

\* C1: once History.push has been called (prev is never empty again after
\* it), the last element of history.prev is App.address, in every reachable
\* state, whatever fetches are in flight, have failed or have completed.
C1_PrevTopIsAddress ==
    app.history.prev # <<>> => Last(app.history.prev) = app.address

\* C2: tick() applies the completion messages in the order they arrived at the
\* channel: a worker's message joins the channel at its end, the drain takes
\* the oldest message, every applied message sets address and page.lines to
\* its own, and nothing else changes them; so after a tick they are those of
\* the message drained last, whatever the dispatch order was.
C2_ArrivalOrder ==
    [][ /\ in_rx' # in_rx => Applies \/ Sends
        /\ Applies => /\ app'.address = Head(in_rx).address
                      /\ app'.page.lines = Head(in_rx).lines
        /\ (app'.address # app.address \/ app'.page.lines # app.page.lines)
               => Applies ]_vars

\* C2's case: the second and third requests, for different addresses, were in
\* flight together, the later one's completion arrived first, and a tick
\* has drained both: the page shown is the earlier request's.
C2_Witness ==
    /\ Len(workers) = 3
    /\ workers[2].st = "done" /\ workers[3].st = "done"
    /\ workers[2].push_history /\ workers[3].push_history
    /\ workers[2].url # workers[3].url
    /\ app.history.prev = <<Default, workers[3].url, workers[2].url>>
    /\ app.address = workers[2].url
    /\ in_rx = <<>>
    /\ event = "Tick"
    /\ pc = "draw"

\* prev followed by next from its top down: the addresses of the history in
\* the order of visit.
Timeline(h) == h.prev \o [i \in 1..Len(h.next) |-> h.next[Len(h.next) + 1 - i]]

\* C3: applying a completion whose Action had push_history = true pushes its
\* address exactly once (prev gains that one element, next is cleared);
\* applying one whose Action had push_history = false leaves prev and next
\* unchanged; no other step pushes; and every dispatch yields at most one
\* completion message, which carries the dispatched address and flag.
C3_PushOncePerExtendingFetch ==
    [][ /\ Applies =>
               IF Head(in_rx).push_history
               THEN /\ app'.history.prev =
                           Append(app.history.prev, Head(in_rx).address)
                    /\ app'.history.next = <<>>
               ELSE app'.history = app.history
        /\ ~Applies => Timeline(app'.history) = Timeline(app.history)
        /\ Sends =>
               \E i \in DOMAIN workers :
                   /\ workers[i].st = "fetch"
                   /\ workers' = [workers EXCEPT ![i].st = "done"]
                   /\ Last(in_rx').address = workers[i].url
                   /\ Last(in_rx').push_history = workers[i].push_history
        /\ \A i \in DOMAIN workers :
               workers[i].st # "fetch" => workers'[i] = workers[i] ]_vars

\* C3's case: a replay requested by page_prev has completed and has been
\* applied: the page is the replayed one and the way forward is still there.
C3_Witness ==
    /\ \E i \in DOMAIN workers :
           /\ workers[i].st = "done"
           /\ ~workers[i].push_history
           /\ app.address = workers[i].url
    /\ in_rx = <<>>
    /\ event = "Tick"
    /\ app.history.next # <<>>
    /\ Last(app.history.prev) = app.address

-----------------------------------------------------------------------------
(* The Page Model.                                                         *)

\* The positions (from 0) of the Link lines of a line sequence.
LinkPositions(lines) == {i \in 0..(Len(lines) - 1) : lines[i + 1].kind = "Link"}

\* highlighted_link is none or an index into link_indices.
HighlightInRange(a) ==
    \/ a.page.highlighted_link = None
    \/ Unwrap(a.page.highlighted_link) \in 0..(Len(a.page.link_indices) - 1)

\* C5: highlighted_link is always none or an index in [0, len(link_indices));
\* next_link moves none to 0 and i to (i + 1) mod len, previous_link moves
\* none to len - 1 and i to (i - 1) mod len, both leave it none on a page
\* without links, and neither panics.
C5_HighlightCircular ==
    [][ LET len == Len(app.page.link_indices)
            hl  == app.page.highlighted_link
        IN  /\ HighlightInRange(app')
            /\ Handles("J") =>
                   /\ pc' = "draw"
                   /\ app'.page.highlighted_link =
                          IF len = 0 THEN None
                          ELSE IF hl = None THEN Some(0)
                          ELSE Some((Unwrap(hl) + 1) % len)
            /\ Handles("K") =>
                   /\ pc' = "draw"
                   /\ app'.page.highlighted_link =
                          IF len = 0 THEN None
                          ELSE IF hl = None THEN Some(len - 1)
                          ELSE Some((Unwrap(hl) + len - 1) % len) ]_vars

\* C5's case: on a page with three links previous_link has wrapped to the
\* last link, after a page with a single link was shown before.
C5_Witness ==
    /\ event = "K"
    /\ pc = "draw"
    /\ Len(app.page.link_indices) = 3
    /\ app.page.highlighted_link = Some(2)
    /\ Len(app.history.prev) >= 2

\* C6: right after a completion message is applied, link_indices lists in
\* increasing order exactly the positions of the Link lines of page.lines,
\* link_numbers[link_indices[i]] = i for every i, highlighted_link is none and
\* scroll is 0, whatever the page before held.
C6_RebuildInvariant ==
    [][ Applies =>
            LET p == app'.page
            IN  /\ p.lines = Head(in_rx).lines
                /\ {p.link_indices[i] : i \in 1..Len(p.link_indices)}
                       = LinkPositions(p.lines)
                /\ \A i, j \in 1..Len(p.link_indices) :
                       i < j => p.link_indices[i] < p.link_indices[j]
                /\ \A i \in 1..Len(p.link_indices) :
                       /\ p.link_indices[i] \in DOMAIN p.link_numbers
                       /\ p.link_numbers[p.link_indices[i]] = i - 1
                /\ p.highlighted_link = None
                /\ app'.scroll = 0 ]_vars

\* C6's case: a page was applied over a page with other link positions (their
\* numbers are still in link_numbers), a link highlighted and scrolled.
C6_Witness ==
    /\ event = "Tick"
    /\ in_rx = <<>>
    /\ app.page.lines # <<>>
    /\ DOMAIN app.page.link_numbers # LinkPositions(app.page.lines)
    /\ app.page.highlighted_link = None
    /\ app.scroll = 0
    /\ Len(app.history.prev) >= 2

\* C7: after any operation that changes the page or the viewport height, the
\* owner thread waiting for its next event with the frame drawn, scroll is
\* within [0, max(0, len(page.lines) - 1)].
C7_ScrollWithinPage ==
    pc = "recv" =>
        /\ app.scroll >= 0
        /\ app.scroll <= SaturatingSub(Len(app.page.lines), 1)

\* C8: page_forward() never leaves scroll above N - 1 for a page of N lines
\* (0 when N = 0), whatever the height and however often it is called, and
\* scroll_up() from scroll = 0 leaves scroll at 0.
C8_PageForwardBound ==
    [][ /\ (Handles("CtrlF") /\ pc' = "draw") =>
               /\ app'.scroll <= SaturatingSub(Len(app.page.lines), 1)
               /\ app'.scroll >= 0
               /\ app'.page = app.page
        /\ (Handles("Up") /\ app.scroll = 0) =>
               app'.scroll = 0 /\ pc' = "draw" ]_vars

\* C8's case: page_forward has run into the bound on a page of several lines.
C8_Witness ==
    /\ event = "CtrlF"
    /\ pc = "draw"
    /\ Len(app.page.lines) >= 2
    /\ app.height > 0
    /\ app.scroll = Len(app.page.lines) - 1

\* The address the highlighted link's target resolves to, as an absolute
\* address or else by joining it against App.address; None if neither works.
Resolved(a) ==
    LET text == Unwrap(a.page.lines[a.page.link_indices[
                    Unwrap(a.page.highlighted_link) + 1] + 1].link)
    IN  IF UrlParse(text).ok THEN Some(UrlParse(text).url)
        ELSE IF UrlJoin(a.address, text).ok THEN Some(UrlJoin(a.address, text).url)
        ELSE None

\* C9: request_page_from_selected() with nothing highlighted, or with a
\* highlighted link whose target resolves neither as an absolute address nor
\* by joining it against App.address, dispatches nothing, changes nothing and
\* does not terminate the program; otherwise it dispatches exactly one
\* PageRequest with push_history = true for the resolved address.
C9_FollowSelected ==
    [][ Handles("Enter") =>
            IF app.page.highlighted_link = None \/ Resolved(app) = None
            THEN /\ app' = app
                 /\ workers' = workers
                 /\ pc' = "draw"
            ELSE /\ app' = app
                 /\ workers' = Append(workers,
                        [st |-> "fetch", url |-> Unwrap(Resolved(app)),
                         push_history |-> TRUE])
                 /\ pc' = "draw" ]_vars

\* The one case of "as if that request had never been dispatched" that needs
\* no memory of the past: the request dispatched last was the only replay,
\* it has failed, and everything sent before has been applied. Had it not
\* been dispatched, no call of History::prev would have been made: there
\* would be no way forward, and the top of prev would be the address shown.
LastRequestFailedAlone ==
    /\ workers # <<>>
    /\ Last(workers).st = "panicked"
    /\ ~Last(workers).push_history
    /\ \A j \in 1..(Len(workers) - 1) :
           workers[j].push_history /\ workers[j].st # "fetch"
    /\ in_rx = <<>>

\* C10: a worker whose fetch fails or whose body holds a malformed line ends
\* without sending, now or later, and leaves the App as it was; the App is
\* then on the old page with page, address, scroll and history as if the
\* request had never been dispatched.
C10_FailedFetchLeavesNoTrace ==
    [][ /\ \A i \in DOMAIN workers :
               /\ (workers[i].st = "fetch" /\ workers'[i].st = "panicked") =>
                      app' = app /\ in_rx' = in_rx
               /\ workers[i].st = "panicked" => workers'[i].st = "panicked"
        /\ Sends => \E i \in DOMAIN workers :
               workers[i].st = "fetch" /\ workers'[i].st = "done"
        /\ LastRequestFailedAlone' =>
               /\ app'.history.next = <<>>
               /\ Last(app'.history.prev) = app'.address ]_vars

-----------------------------------------------------------------------------
(* The second group of properties.                                         *)

\* C11: tick() never waits for a worker: inside drain_events the owner thread
\* always has its next step, whatever the workers do: with a message pending
\* it applies the oldest one and does not return, and with none pending it
\* returns at once, however many fetches are in flight.
C11_TickNeverWaits ==
    pc = "drain" =>
        /\ in_rx # <<>> => ENABLED DrainOne /\ ~ENABLED DrainEmpty
        /\ in_rx = <<>> => ENABLED DrainEmpty /\ ~ENABLED DrainOne

\* C11's case: a tick has returned with nothing pending while a fetch was in
\* flight, after an earlier completion had been applied.
C11_Witness ==
    /\ event = "Tick"
    /\ pc = "draw"
    /\ in_rx = <<>>
    /\ \E i \in DOMAIN workers : workers[i].st = "fetch"
    /\ app.page.lines # <<>>

\* C18: tick() never returns an error: the App holds a sender of the
\* completion channel, so drain_events never sees it disconnected, whether
\* the workers have finished, aborted or are still running.
C18_TickNeverFails == pc # "error"

\* C18's case: a tick has returned with every worker ended, one of them by a
\* panic: the only sender left was the App's own.
C18_Witness ==
    /\ event = "Tick"
    /\ pc = "draw"
    /\ Len(workers) >= 2
    /\ \A i \in DOMAIN workers : workers[i].st # "fetch"
    /\ \E i \in DOMAIN workers : workers[i].st = "panicked"
    /\ \E i \in DOMAIN workers : workers[i].st = "done"

\* A replay request for the address ret, as dispatch starts it.
Replay(ret) == [st |-> "fetch", url |-> Unwrap(ret), push_history |-> FALSE]

\* C12: the 'b' key (resp. 'f') dispatches exactly one PageRequest, with
\* push_history = false, for the address History.prev() (resp. next())
\* returns when has_prev() (resp. has_next()) holds; otherwise it dispatches
\* nothing and changes no App state.
C12_BackForwardDispatch ==
    [][ /\ Handles("B") =>
            IF has_prev(app.history)
            THEN /\ IsSome(prev(app.history).ret)
                 /\ workers' = Append(workers, Replay(prev(app.history).ret))
                 /\ app' = [app EXCEPT !.history = prev(app.history).h]
            ELSE app' = app /\ workers' = workers
        /\ Handles("F") =>
            IF has_next(app.history)
            THEN /\ IsSome(next(app.history).ret)
                 /\ workers' = Append(workers, Replay(next(app.history).ret))
                 /\ app' = [app EXCEPT !.history = next(app.history).h]
            ELSE app' = app /\ workers' = workers
      ]_vars

\* C12's case: 'b' was answered by a replay of the start page, that page was
\* applied, and 'f' has now dispatched the replay of the page gone back from.
C12_Witness ==
    /\ event = "F"
    /\ pc = "draw"
    /\ Len(workers) >= 2
    /\ workers[Len(workers) - 1] = [st |-> "done", url |-> Default, push_history |-> FALSE]
    /\ Last(workers) = [st |-> "fetch", url |-> NavLink, push_history |-> FALSE]
    /\ app.address = Default
    /\ app.history = [prev |-> <<Default, NavLink>>, next |-> <<>>]

\* History.prev ("go back") resp. History.next ("go forward") was called in
\* this step.
Calls(op) == Len(trace') = Len(trace) + 1 /\ Last(trace').op = op

\* C13: go_back() with at most one element in prev, and go_forward() with
\* next empty, return no address and leave prev and next unchanged; when they
\* return an address, go_back() moves exactly the top of prev onto next and
\* go_forward() exactly the top of next onto prev, so prev followed by
\* reversed next is the same sequence before and after.
C13_BackForwardFrame ==
    [][ LET h == app.history
            g == app'.history
            ret == Last(trace').ret
        IN  /\ Calls("prev") =>
                IF Len(h.prev) <= 1
                THEN ret = None /\ g = h
                ELSE /\ IsSome(ret)
                     /\ g.prev = Front(h.prev)
                     /\ g.next = Append(h.next, Last(h.prev))
                     /\ Timeline(g) = Timeline(h)
            /\ Calls("next") =>
                IF h.next = <<>>
                THEN ret = None /\ g = h
                ELSE /\ IsSome(ret)
                     /\ g.next = Front(h.next)
                     /\ g.prev = Append(h.prev, Last(h.next))
                     /\ Timeline(g) = Timeline(h)
      ]_vars

\* C13's case: with one page on the history go_back() and go_forward() both
\* returned nothing; after a second page go_back() and then go_forward()
\* each returned an address.
C13_Witness ==
    /\ Len(trace) = 6
    /\ trace[1].op = "push"
    /\ trace[2].op = "prev" /\ trace[2].ret = None
    /\ trace[3].op = "next" /\ trace[3].ret = None
    /\ trace[4].op = "push" /\ trace[4].arg # trace[1].arg
    /\ trace[5].op = "prev" /\ trace[5].ret = trace[1].arg
    /\ trace[6].op = "next" /\ trace[6].ret = trace[4].arg
    /\ app.history = [prev |-> <<Unwrap(trace[1].arg), Unwrap(trace[4].arg)>>,
                      next |-> <<>>]

\* C14: after any sequence of page replacements link_numbers is exactly the
\* inverse of link_indices: its keys are exactly the positions of the Link
\* lines of the current page, with no entry left from an earlier page.
C14_LinkNumbersInverse ==
    LET p == app.page
    IN  /\ DOMAIN p.link_numbers = LinkPositions(p.lines)
        /\ \A i \in 1..Len(p.link_indices) :
               p.link_numbers[p.link_indices[i]] = i - 1

\* C15: when a completion message is applied, page.lines, the link index,
\* highlighted_link = none, scroll = 0 and address are set from the message
\* before History.push runs: push stores the address just assigned, so where
\* the new address is the top of history.prev, address and page belong to
\* that same message.
C15_UpdateBeforePush ==
    [][ Applies /\ Head(in_rx).push_history =>
            LET m == Head(in_rx)
                p == app'.page
            IN  /\ app'.history.prev = Append(app.history.prev, m.address)
                /\ Last(app'.history.prev) = app'.address
                /\ app'.address = m.address
                /\ p.lines = m.lines
                /\ {p.link_indices[i] : i \in 1..Len(p.link_indices)}
                       = LinkPositions(m.lines)
                /\ p.highlighted_link = None
                /\ app'.scroll = 0 ]_vars

\* C15's case: the page of a followed link was applied with push_history
\* set while another page was shown; its address is now the top of prev.
C15_Witness ==
    /\ pc = "drain"
    /\ app.history.prev = <<Default, NavLink>>
    /\ app.address = NavLink
    /\ app.page.lines = <<TextLine, LinkLine(TargetBadJoin)>>
    /\ app.page.link_indices = <<1>>
    /\ app.page.highlighted_link = None
    /\ app.scroll = 0

\* The thread of workers[i] took a step.
WorkerStep(i) == workers'[i] # workers[i]

\* C16: a step of a fetch worker leaves page, address, search, scroll,
\* height and history unchanged, and those change only in steps of the owner
\* thread; all a worker does to shared state is append at most one message
\* to the completion channel: the one step it takes either ends it without
\* a message or sends the PageLoaded of its own request.
C16_WorkersOnlySend ==
    [][ /\ \A i \in DOMAIN workers :
               WorkerStep(i) =>
                   /\ app' = app
                   /\ pc' = pc /\ event' = event
                   /\ workers[i].st = "fetch"
                   /\ workers' = [workers EXCEPT ![i].st = workers'[i].st]
                   /\ \/ workers'[i].st = "panicked" /\ in_rx' = in_rx
                      \/ /\ workers'[i].st = "done"
                         /\ Sends
                         /\ Last(in_rx').address = workers[i].url
                         /\ Last(in_rx').push_history = workers[i].push_history
        /\ app' # app =>
               /\ \A i \in DOMAIN workers : ~WorkerStep(i)
               /\ pc \in {"draw", "recv", "drain"}
               /\ ~Sends
        /\ Sends => \E i \in DOMAIN workers : WorkerStep(i)
      ]_vars

\* C16's case: a worker has sent the page of a followed link and ended while
\* the App still shows the start page at the address it had.
C16_Witness ==
    /\ in_rx # <<>>
    /\ Head(in_rx).address = NavLink
    /\ app.address = Default
    /\ app.page.lines # <<>>
    /\ app.history.prev = <<Default>>
    /\ \E i \in DOMAIN workers :
           workers[i] = [st |-> "done", url |-> NavLink, push_history |-> TRUE]

\* C19: History round trip: in every History state where has_prev() holds,
\* go_back() followed by go_forward() leaves prev and next exactly as they
\* were, and where has_next() holds, go_forward() followed by go_back() does.
C19_RoundTrip ==
    LET h == app.history
    IN  /\ has_prev(h) =>
               /\ IsSome(prev(h).ret)
               /\ IsSome(next(prev(h).h).ret)
               /\ next(prev(h).h).h = h
        /\ has_next(h) =>
               /\ IsSome(next(h).ret)
               /\ IsSome(prev(next(h).h).ret)
               /\ prev(next(h).h).h = h

\* C19's case: three pages were pushed and go_back() called once, so that
\* next is not empty; then go_back() and go_forward() were called and each
\* returned an address, and the history is the one before the two calls.
C19_Witness ==
    /\ Len(trace) = 6
    /\ IsRun(1, 3, "push")
    /\ trace[1].arg # trace[2].arg /\ trace[2].arg # trace[3].arg
    /\ trace[4].op = "prev" /\ trace[4].ret = trace[2].arg
    /\ trace[5].op = "prev" /\ trace[5].ret = trace[1].arg
    /\ trace[6].op = "next" /\ trace[6].ret = trace[2].arg
    /\ app.history = [prev |-> <<Unwrap(trace[1].arg), Unwrap(trace[2].arg)>>,
                      next |-> <<Unwrap(trace[3].arg)>>]
    /\ has_prev(app.history) /\ has_next(app.history)

\* The smaller of two numbers.
Min(x, y) == IF x <= y THEN x ELSE y

\* C20: no scroll operation overflows the 16-bit scroll counter: for every
\* scroll, height and page length, scroll_down() computes scroll + 1 and
\* page_forward() scroll + height within [0, 2^16 - 1], neither panicking nor
\* wrapping, and the bound page_forward applies is the true len(lines) - 1,
\* not that value modulo 2^16.
C20_NoScrollOverflow ==
    [][ /\ Calls("scroll_down") =>
               /\ pc' # "panicked"
               /\ app.scroll + 1 <= U16 - 1
               /\ app'.scroll = app.scroll + 1
        /\ Calls("page_forward") =>
               /\ pc' # "panicked"
               /\ app.scroll + app.height <= U16 - 1
               /\ app'.scroll = Min(app.scroll + app.height,
                                    SaturatingSub(Len(app.page.lines), 1))
      ]_vars

\* C17: with the event source and the main loop both running and no quit,
\* every completion message a worker has sent is eventually applied: a
\* channel with a message pending is drained by the next Tick.
C17_MessagesEventuallyApplied == (in_rx # <<>>) ~> (in_rx = <<>>)

====
